---- MODULE Spec2Model ----
(***************************************************************************)
(* Model of the LINE bot of api/index.js: the webhook's handleEvent, its   *)
(* Supervisor -> Sub-agents -> Synthesizer pipeline, the postback handler  *)
(* and the prompt builders of prompts/index.js.                            *)
(*                                                                         *)
(* Text is modelled as a sequence of parts (a template literal is the      *)
(* concatenation of its literal pieces and its interpolated values).  The  *)
(* supervisor's raw output is a sequence of lexical tokens, so that the    *)
(* fence stripping and JSON.parse act on it as they do in the code.        *)
(***************************************************************************)
EXTENDS Integers, Sequences, FiniteSets, TLC

\* ------------------------------------------------------------------ bounds
MaxTasks == 2          \* longest task array the supervisor output holds
MaxEvents == 2         \* most events in one webhook delivery

\* ------------------------------------------------------- program constants
DUMMY_TOKEN_0 == "00000000000000000000000000000000"
DUMMY_TOKEN_F == "ffffffffffffffffffffffffffffffff"
SUPERVISOR_PROMPT == "SUPERVISOR_PROMPT"
APOLOGY_TEXT == "sorry, system error while handling the task"
UNKNOWN_ACTION_TEXT == "unknown operation, please use the menu buttons"
AI_CHAT_GREETING == "AI_CHAT_GREETING"
RichMenuACTIONS == [AI_CHAT |-> "action=ai_chat", FEATURES |-> "action=features", HELP |-> "action=help"]
buildFeatureListText == "feature list text"
buildHelpText == "help text"

\* JavaScript's undefined, and what a template literal renders for it
Undefined == "<undefined>"
ToStr(v) == IF v = Undefined THEN "undefined" ELSE v

\* ----------------------------------------------------------- input domains
UserMessages == {"m1"}
Texts == {"t1", "t2"}
Errors == {"err1", "err2"}
ReplyTokens == {"tokA", DUMMY_TOKEN_0, DUMMY_TOKEN_F}
PostbackData == {RichMenuACTIONS.AI_CHAT, RichMenuACTIONS.FEATURES, RichMenuACTIONS.HELP, "action=other"}

\* ------------------------------------------------------ generic operators
RECURSIVE Flatten(_)
Flatten(ss) == IF ss = <<>> THEN <<>> ELSE Head(ss) \o Flatten(Tail(ss))

RECURSIVE SeqsUpTo(_, _)
SeqsUpTo(S, n) ==
  IF n = 0 THEN {<<>>}
  ELSE LET shorter == SeqsUpTo(S, n - 1)
       IN shorter \cup {Append(s, x) : s \in {t \in shorter : Len(t) = n - 1}, x \in S}

\* Array.prototype.join(sep) over texts that are sequences of parts
RECURSIVE JoinWith(_, _)
JoinWith(ss, sep) ==
  IF ss = <<>> THEN <<>>
  ELSE IF Len(ss) = 1 THEN Head(ss)
  ELSE Head(ss) \o <<sep>> \o JoinWith(Tail(ss), sep)

\* ------------------------------------------------ lexical model of a text
\* A token of the supervisor's raw output.  "obj" is the JSON text of one
\* object literal; role / instruction are Undefined when the member is absent.
Tok(t) == [t |-> t, role |-> "", instruction |-> ""]
ObjTok(r, i) == [t |-> "obj", role |-> r, instruction |-> i]
\* the three-backtick fence marker
FENCE == Tok("fence")
NL == Tok("\n")
Whitespace == {"\n", " "}
ElemTokens == {"obj", "null", "num"}

\* A string value that holds a fence marker inside its quotes, and the same
\* value with the marker taken out
I_FENCED == "i2<fence>"
I_STRIPPED == "i2"
StripValue(v) == IF v = I_FENCED THEN I_STRIPPED ELSE v

\* line 86: supervisorResponseText.replace(/FENCEjson\n?|FENCE/gi, ''), a
\* global replace: it also removes the markers inside the string values
RECURSIVE StripFences(_)
StripFences(s) ==
  IF s = <<>> THEN <<>>
  ELSE IF Head(s).t = "fence"
       THEN LET r == Tail(s) IN
            IF r # <<>> /\ Head(r).t \in {"json", "JSON"}
            THEN LET r2 == Tail(r) IN
                 IF r2 # <<>> /\ Head(r2).t = "\n" THEN StripFences(Tail(r2)) ELSE StripFences(r2)
            ELSE StripFences(r)
       ELSE IF Head(s).t = "obj"
       THEN <<ObjTok(StripValue(Head(s).role), StripValue(Head(s).instruction))>> \o StripFences(Tail(s))
       ELSE <<Head(s)>> \o StripFences(Tail(s))

\* String.prototype.trim()
RECURSIVE TrimLeft(_)
TrimLeft(s) == IF s # <<>> /\ Head(s).t \in Whitespace THEN TrimLeft(Tail(s)) ELSE s
RECURSIVE TrimRight(_)
TrimRight(s) == IF s # <<>> /\ s[Len(s)].t \in Whitespace THEN TrimRight(SubSeq(s, 1, Len(s) - 1)) ELSE s
Trim(s) == TrimRight(TrimLeft(s))

\* JSON values.  An element of an array is [k, role, instruction]; the value
\* of a whole text is [k, items].
ElemOf(tok) == [k |-> tok.t, role |-> tok.role, instruction |-> tok.instruction]
JsonValue(k, items) == [k |-> k, items |-> items]
EmptyArray == JsonValue("array", <<>>)
SyntaxError == JsonValue("SyntaxError", <<>>)

RECURSIVE DropWhitespace(_)
DropWhitespace(s) ==
  IF s = <<>> THEN <<>>
  ELSE IF Head(s).t \in Whitespace THEN DropWhitespace(Tail(s))
  ELSE <<Head(s)>> \o DropWhitespace(Tail(s))

\* JSON.parse(text): a lone literal, or '[' elem (',' elem)* ']', whitespace
\* between tokens being insignificant; anything else is a SyntaxError.
JSONparse(text) ==
  LET s == DropWhitespace(text)
      n == Len(s)
      inner == SubSeq(s, 2, n - 1)
      m == n - 2
  IN IF n = 1 /\ s[1].t \in ElemTokens
       THEN JsonValue(IF s[1].t = "obj" THEN "object" ELSE s[1].t, <<>>)
     ELSE IF n >= 2 /\ s[1].t = "[" /\ s[n].t = "]"
       THEN IF m = 0 THEN EmptyArray
            ELSE IF /\ m % 2 = 1
                    /\ \A j \in 1..m : IF j % 2 = 1 THEN inner[j].t \in ElemTokens
                                                    ELSE inner[j].t = ","
                 THEN JsonValue("array", [j \in 1..((m + 1) \div 2) |-> ElemOf(inner[2 * j - 1])])
                 ELSE SyntaxError
     ELSE SyntaxError

\* the parse without the try/catch of lines 84-92
ParseTasks_Uncaught(supervisorResponseText) == JSONparse(Trim(StripFences(supervisorResponseText)))

\* lines 83-92: clean, parse, and fall back to [] when parsing throws
ParseTasks(supervisorResponseText) ==
  LET cleanJsonStr == Trim(StripFences(supervisorResponseText))
      parsed == JSONparse(cleanJsonStr)
  IN IF parsed = SyntaxError THEN EmptyArray ELSE parsed

\* the branch of line 95 without its Array.isArray test
UseFallback_LengthOnly(tasks) == tasks.k = "array" /\ Len(tasks.items) = 0

\* line 95: !Array.isArray(tasks) || tasks.length === 0
UseFallback(tasks) == tasks.k # "array" \/ Len(tasks.items) = 0

\* task.role / task.instruction: a property read throws on null, is undefined
\* on a number, and is the member (or undefined) on an object
Throws(task) == task.k = "null"
RoleOf(task) == IF task.k = "obj" THEN task.role ELSE Undefined
InstructionOf(task) == IF task.k = "obj" THEN task.instruction ELSE Undefined

\* ------------------------------------------------ prompts/index.js builders
SupervisorPromptOf(userMessage) == <<SUPERVISOR_PROMPT, "\n\nuser message:", userMessage>>
buildAgentPrompt(role, instruction, userMessage) ==
  <<"you are now ", ToStr(role), ". carry out the instruction:\n", ToStr(instruction),
    "\n\noriginal user message:", userMessage>>
buildSynthesizerPrompt(userMessage, agentResultsCombined) ==
  <<"you are the Synthesizer. the user's request:\n\"", userMessage, "\"\n\nagent results:\n">>
    \o agentResultsCombined \o <<"\n\nmerge these results into one reply.">>

\* the fallback call given the supervisor template around the message
FallbackPrompt_Wrapped(userMessage) == <<SUPERVISOR_PROMPT, "\n\nuser message:", userMessage>>

\* line 97: the fallback call is given the user message as it is
FallbackPrompt(userMessage) == <<userMessage>>

\* lines 108 and 111: the labelled outcome of one sub-agent
REPORT_LABEL == " report]:\n"
FAILED_LABEL == " report]: (failed)"
ReportOk(role, text) == <<"[", ToStr(role), REPORT_LABEL, text>>
ReportFailed(role) == <<"[", ToStr(role), FAILED_LABEL>>
\* line 116: agentResultsArray.join('\n\n')
Combine(agentResultsArray) == JoinWith(agentResultsArray, "\n\n")

\* --------------------------------------- what the supervisor may answer
TaskElems == {ObjTok("r1", "i1"), ObjTok("r2", I_FENCED), ObjTok("", Undefined),
              Tok("null"), Tok("num")}
RECURSIVE Stringify(_)
Stringify(items) ==
  IF items = <<>> THEN <<>>
  ELSE IF Len(items) = 1 THEN <<Head(items)>>
  ELSE <<Head(items), Tok(",")>> \o Stringify(Tail(items))
ArrayText(items) == <<Tok("[")>> \o Stringify(items) \o <<Tok("]")>>
Fenced(tag, text) == <<FENCE, Tok(tag), NL>> \o text \o <<NL, FENCE>>
ArrayTexts == {ArrayText(items) : items \in SeqsUpTo(TaskElems, MaxTasks)}
SupervisorOutputs ==
  ArrayTexts
  \cup {Fenced("json", ArrayText(items)) : items \in SeqsUpTo({ObjTok("r1", "i1"), ObjTok("r2", I_FENCED)}, MaxTasks)}
  \cup { <<Tok("word")>>, <<>>, <<Tok("[") , ObjTok("r1", "i1")>>,
         <<ObjTok("r1", "i1")>>, <<Tok("null")>>, <<Tok("num")>>,
         <<Tok("[") , ObjTok("r1", "i1"), Tok(","), Tok("]")>>,
         Fenced("js", ArrayText(<<ObjTok("r1", "i1")>>)),
         <<FENCE, NL>> \o ArrayText(<<ObjTok("r1", "i1")>>) \o <<NL, FENCE>> }

\* --------------------------------------------------------------- events
Event(tok, type, messageType, text, data) ==
  [replyToken |-> tok, type |-> type, messageType |-> messageType, text |-> text, data |-> data]
AllEvents ==
  {Event(tok, "message", "text", m, "") : tok \in ReplyTokens, m \in UserMessages}
  \cup {Event(tok, "message", "image", "", "") : tok \in ReplyTokens}
  \cup {Event(tok, "postback", "", "", d) : tok \in ReplyTokens, d \in PostbackData}
  \cup {Event(tok, "follow", "", "", "") : tok \in ReplyTokens}

\* ----------------------------------------------------------------- state
VARIABLES
  script,                  \* the run of testGemini (test-gemini.js), if any
  request,                 \* what line.middleware makes of the HTTP request
  events,                  \* req.body.events of the webhook delivery
  stage,                   \* per event: where its handleEvent invocation is
  calls,                   \* per event: the model.generateContent calls it issued
  supervisorResponseText,  \* per event: raw text of the supervisor's answer
  tasks,                   \* per event: the parsed tasks value
  agentPromises,           \* per event: the promises of tasks.map(async ...)
  replies,                 \* per event: the lineClient.replyMessage calls it issued
  ret,                     \* per event: the promise handleEvent returned
  settleOrder,             \* per event: its calls in the order they settled
  res                      \* the HTTP response of the webhook

vars == <<script, request, events, stage, calls, supervisorResponseText, tasks, agentPromises, replies, ret, settleOrder, res>>

E == DOMAIN events

Call(st, index, prompt) ==
  [stage |-> st, index |-> index, prompt |-> prompt, status |-> "pending", text |-> "", error |-> ""]
\* a call fulfils with a text or rejects with an error
Settled(call, ok, text, err) ==
  [call EXCEPT !.status = IF ok THEN "ok" ELSE "fail",
               !.text = IF ok THEN text ELSE "",
               !.error = IF ok THEN "" ELSE err]
\* the ways a call may settle
Outcomes == [ok : {TRUE}, text : Texts, error : {""}] \cup [ok : {FALSE}, text : {""}, error : Errors]
Promise(state, value) == [state |-> state, value |-> value]
Reply(tok, text) == [replyToken |-> tok, text |-> text, status |-> "pending"]
NoTasks == JsonValue("unset", <<>>)

\* a guard that knows only the all-zero token
IsDummy_ZeroOnly(tok) == tok = DUMMY_TOKEN_0

\* line 62
IsDummy(tok) == tok = DUMMY_TOKEN_0 \/ tok = DUMMY_TOKEN_F

\* lines 30-41: the response of the webhook once Promise.all(events.map(handleEvent))
\* settles: rejected by the first rejection, fulfilled when every promise is
Respond(r, retNew) ==
  IF r # "none" THEN r
  ELSE IF \E e \in DOMAIN retNew : retNew[e] = "rejected" THEN "200 end"
  ELSE IF \A e \in DOMAIN retNew : retNew[e] \in {"null", "fulfilled"} THEN "200 json"
  ELSE "none"

\* lines 138-175: the text handlePostback replies with
PostbackText(data) ==
  IF data = RichMenuACTIONS.FEATURES THEN buildFeatureListText
  ELSE IF data = RichMenuACTIONS.HELP THEN buildHelpText
  ELSE IF data = RichMenuACTIONS.AI_CHAT THEN AI_CHAT_GREETING
  ELSE UNKNOWN_ACTION_TEXT

\* handleEvent without the postback branch of lines 66-69
StartStage_NoPostback(ev) ==
  IF IsDummy(ev.replyToken) THEN "IGNORED"
  ELSE IF ev.type # "message" \/ ev.messageType # "text" THEN "IGNORED"
  ELSE "SUPERVISING"

\* handleEvent sending the events it does not support to the fixed notice
StartStage_NoticeForUnsupported(ev) ==
  IF IsDummy(ev.replyToken) THEN "IGNORED"
  ELSE IF ev.type = "postback" THEN "POSTBACK"
  ELSE IF ev.type # "message" \/ ev.messageType # "text" THEN "POSTBACK"
  ELSE "SUPERVISING"

\* handleEvent with a guard on the event type only: any message is decomposed
StartStage_NoTextGuard(ev) ==
  IF IsDummy(ev.replyToken) THEN "IGNORED"
  ELSE IF ev.type = "postback" THEN "POSTBACK"
  ELSE IF ev.type # "message" THEN "IGNORED"
  ELSE "SUPERVISING"

\* lines 60-80: handleEvent up to its first await
StartStage(ev) ==
  IF IsDummy(ev.replyToken) THEN "IGNORED"
  ELSE IF ev.type = "postback" THEN "POSTBACK"
  ELSE IF ev.type # "message" \/ ev.messageType # "text" THEN "IGNORED"
  ELSE "SUPERVISING"

\* line.middleware passes a signed JSON body on to the handler, or hands an
\* error to the error middleware; a JSON body may lack the events array
Requests == {"valid", "valid_no_events", "SignatureValidationFailed", "JSONParseError", "Error"}

\* test-gemini.js: the script's run, before testGemini is called
ScriptNotRun == [stage |-> "IDLE", calls |-> <<>>, tasks |-> NoTasks, agentPromises |-> <<>>]

Init ==
  /\ script = ScriptNotRun
  /\ request \in Requests
  /\ events \in IF request = "valid" THEN {<<>>} \cup {<<ev>> : ev \in AllEvents} ELSE {<<>>}
  /\ stage = [e \in E |-> "IDLE"]
  /\ calls = [e \in E |-> <<>>]
  /\ supervisorResponseText = [e \in E |-> <<>>]
  /\ tasks = [e \in E |-> NoTasks]
  /\ agentPromises = [e \in E |-> <<>>]
  /\ replies = [e \in E |-> <<>>]
  /\ ret = [e \in E |-> "notcalled"]
  /\ settleOrder = [e \in E |-> <<>>]
  /\ res = "none"

\* app.post('/api/webhook'): events.map(handleEvent) runs every handleEvent up
\* to its first await
Webhook ==
  /\ request = "valid"
  /\ res = "none"
  /\ \A e \in E : stage[e] = "IDLE"
  /\ stage' = [e \in E |-> StartStage(events[e])]
  /\ calls' = [e \in E |-> IF StartStage(events[e]) = "SUPERVISING"
                            THEN <<Call("supervisor", 0, SupervisorPromptOf(events[e].text))>>
                            ELSE <<>>]
  /\ replies' = [e \in E |-> IF StartStage(events[e]) = "POSTBACK"
                              THEN <<Reply(events[e].replyToken, PostbackText(events[e].data))>>
                              ELSE <<>>]
  /\ ret' = [e \in E |-> IF StartStage(events[e]) = "IGNORED" THEN "null" ELSE "pending"]
  /\ res' = Respond(res, ret')
  /\ UNCHANGED <<script, request, events, supervisorResponseText, tasks, agentPromises, settleOrder>>

\* lines 31-40: req.body.events is undefined, events.map throws and the catch
\* block of the webhook answers
WebhookThrows ==
  /\ request = "valid_no_events"
  /\ res = "none"
  /\ res' = "200 end"
  /\ UNCHANGED <<script, request, events, stage, calls, supervisorResponseText, tasks, agentPromises, replies, ret, settleOrder>>

\* lines 44-58: the status the error middleware answers with
ErrorStatus(err) ==
  IF err = "SignatureValidationFailed" THEN "401 send"
  ELSE IF err = "JSONParseError" THEN "400 send"
  ELSE "200 end"

\* lines 44-58: app.use((err, req, res, next) => ...)
ErrorMiddleware ==
  /\ request \in {"SignatureValidationFailed", "JSONParseError", "Error"}
  /\ res = "none"
  /\ res' = ErrorStatus(request)
  /\ UNCHANGED <<script, request, events, stage, calls, supervisorResponseText, tasks, agentPromises, replies, ret, settleOrder>>

\* a catch block that answers the first event of the delivery
Apologise_FirstToken(e) == Append(replies[e], Reply(events[1].replyToken, APOLOGY_TEXT))

\* lines 128-134: the catch block replies with the apology
Apologise(e) == Append(replies[e], Reply(events[e].replyToken, APOLOGY_TEXT))

\* the index in calls[e] of the pending call of a stage, if any
PendingCalls(e, st) == {c \in DOMAIN calls[e] : calls[e][c].stage = st /\ calls[e][c].status = "pending"}

\* a serial fan-out: only the first sub-agent call is issued at dispatch
RECURSIVE AgentCalls_FirstOnly(_, _, _)
AgentCalls_FirstOnly(items, j, userMessage) ==
  IF j > Len(items) \/ j > 1 THEN <<>>
  ELSE (IF Throws(items[j]) THEN <<>>
        ELSE <<Call("agent", j, buildAgentPrompt(RoleOf(items[j]), InstructionOf(items[j]), userMessage))>>)
       \o AgentCalls_FirstOnly(items, j + 1, userMessage)

\* a fan-out that skips the descriptors without a role
RECURSIVE AgentCalls_SkipsUnlabelled(_, _, _)
AgentCalls_SkipsUnlabelled(items, j, userMessage) ==
  IF j > Len(items) THEN <<>>
  ELSE (IF Throws(items[j]) \/ RoleOf(items[j]) = Undefined THEN <<>>
        ELSE <<Call("agent", j, buildAgentPrompt(RoleOf(items[j]), InstructionOf(items[j]), userMessage))>>)
       \o AgentCalls_SkipsUnlabelled(items, j + 1, userMessage)

\* lines 104-113, first half: tasks.map runs each async callback up to its
\* await; the callback of an element whose property read throws is rejected
\* before it issues a call
RECURSIVE AgentCalls(_, _, _)
AgentCalls(items, j, userMessage) ==
  IF j > Len(items) THEN <<>>
  ELSE (IF Throws(items[j]) THEN <<>>
        ELSE <<Call("agent", j, buildAgentPrompt(RoleOf(items[j]), InstructionOf(items[j]), userMessage))>>)
       \o AgentCalls(items, j + 1, userMessage)

StartedPromises(items) ==
  [j \in 1..Len(items) |-> IF Throws(items[j]) THEN Promise("rejected", <<>>) ELSE Promise("pending", <<>>)]

\* a supervisor failure outside any try: handleEvent's promise rejects
SupervisorFails_Uncaught(e, err) ==
  /\ stage[e] = "SUPERVISING"
  /\ calls' = [calls EXCEPT ![e][1] = Settled(@, FALSE, "", err)]
  /\ stage' = [stage EXCEPT ![e] = "FAILED"]
  /\ settleOrder' = [settleOrder EXCEPT ![e] = Append(@, 1)]
  /\ ret' = [ret EXCEPT ![e] = "rejected"]
  /\ res' = Respond(res, ret')
  /\ UNCHANGED <<script, request, events, supervisorResponseText, tasks, agentPromises, replies>>

\* a supervisor failure that is retried once instead of ending the invocation
SupervisorFails_Retries(e, err) ==
  /\ stage[e] = "SUPERVISING"
  /\ settleOrder' = [settleOrder EXCEPT ![e] = Append(@, Len(calls[e]))]
  /\ IF Len(calls[e]) = 1
     THEN /\ calls' = [calls EXCEPT ![e] = Append([@ EXCEPT ![1] = Settled(@, FALSE, "", err)],
                                                  Call("supervisor", 0, SupervisorPromptOf(events[e].text)))]
          /\ UNCHANGED <<stage, replies>>
     ELSE /\ calls' = [calls EXCEPT ![e][Len(calls[e])] = Settled(@, FALSE, "", err)]
          /\ stage' = [stage EXCEPT ![e] = "FAILED"]
          /\ replies' = [replies EXCEPT ![e] = Append(replies[e], Reply(events[e].replyToken, APOLOGY_TEXT))]
  /\ UNCHANGED <<script, request, events, supervisorResponseText, tasks, agentPromises, ret, res>>

\* lines 80-115: the supervisor call settles; handleEvent runs to its next await
SupervisorFails(e, err) ==
  /\ stage[e] = "SUPERVISING"
  /\ calls' = [calls EXCEPT ![e][1] = Settled(@, FALSE, "", err)]
  /\ stage' = [stage EXCEPT ![e] = "FAILED"]
  /\ replies' = [replies EXCEPT ![e] = Apologise(e)]
  /\ settleOrder' = [settleOrder EXCEPT ![e] = Append(@, 1)]
  /\ UNCHANGED <<script, request, events, supervisorResponseText, tasks, agentPromises, ret, res>>

SupervisorAnswers(e, raw) ==
  /\ stage[e] = "SUPERVISING"
  /\ supervisorResponseText' = [supervisorResponseText EXCEPT ![e] = raw]
  /\ settleOrder' = [settleOrder EXCEPT ![e] = Append(@, 1)]
  /\ LET parsed == ParseTasks(raw)
         userMessage == events[e].text
         answered == [calls[e] EXCEPT ![1] = Settled(@, TRUE, "", "")]
     IN /\ tasks' = [tasks EXCEPT ![e] = parsed]
        /\ IF parsed.k # "SyntaxError" /\ UseFallback(parsed)
           THEN /\ calls' = [calls EXCEPT ![e] = Append(answered, Call("fallback", 0, FallbackPrompt(userMessage)))]
                /\ stage' = [stage EXCEPT ![e] = "FALLBACK"]
                /\ UNCHANGED <<agentPromises, replies>>
           ELSE IF parsed.k = "SyntaxError"
           THEN \* an exception leaving lines 83-92 lands in the catch of line 128
                /\ calls' = [calls EXCEPT ![e] = answered]
                /\ stage' = [stage EXCEPT ![e] = "FAILED"]
                /\ replies' = [replies EXCEPT ![e] = Apologise(e)]
                /\ UNCHANGED agentPromises
           ELSE /\ calls' = [calls EXCEPT ![e] = answered \o AgentCalls(parsed.items, 1, userMessage)]
                /\ agentPromises' = [agentPromises EXCEPT ![e] = StartedPromises(parsed.items)]
                /\ IF \E j \in DOMAIN parsed.items : Throws(parsed.items[j])
                   THEN /\ stage' = [stage EXCEPT ![e] = "FAILED"]
                        /\ replies' = [replies EXCEPT ![e] = Apologise(e)]
                   ELSE /\ stage' = [stage EXCEPT ![e] = "DISPATCHING"]
                        /\ UNCHANGED replies
  /\ UNCHANGED <<script, request, events, ret, res>>

\* lines 97-99: the fallback call settles
FallbackSettles(e, ok, text, err) ==
  /\ stage[e] = "FALLBACK"
  /\ \E c \in PendingCalls(e, "fallback") :
       /\ calls' = [calls EXCEPT ![e][c] = Settled(@, ok, text, err)]
       /\ settleOrder' = [settleOrder EXCEPT ![e] = Append(@, c)]
  /\ IF ok
     THEN /\ stage' = [stage EXCEPT ![e] = "DONE"]
          /\ replies' = [replies EXCEPT ![e] = Append(@, Reply(events[e].replyToken, text))]
     ELSE /\ stage' = [stage EXCEPT ![e] = "FAILED"]
          /\ replies' = [replies EXCEPT ![e] = Apologise(e)]
  /\ UNCHANGED <<script, request, events, supervisorResponseText, tasks, agentPromises, ret, res>>

\* a callback without the try/catch of lines 106-112: a failed call leaves no outcome
AgentOutcome_Dropped(task, ok, text, err) ==
  IF ok THEN ReportOk(RoleOf(task), text) ELSE <<>>

\* a placeholder that quotes the error caught at line 109
AgentOutcome_LeaksError(task, ok, text, err) ==
  IF ok THEN ReportOk(RoleOf(task), text) ELSE ReportFailed(RoleOf(task)) \o <<err>>

\* lines 106-112: what the callback of task j returns when its call settles;
\* the error caught at line 109 is logged and not used in the outcome
AgentOutcome(task, ok, text, err) ==
  IF ok THEN ReportOk(RoleOf(task), text) ELSE ReportFailed(RoleOf(task))

\* line 115: the array Promise.all resolves to
ResultsArray(promises) == [j \in DOMAIN promises |-> promises[j].value]

\* results collected in completion order: the next free position is filled
SlotOf_CompletionOrder(e, c) ==
  CHOOSE j \in DOMAIN agentPromises[e] :
    /\ agentPromises[e][j].state = "pending"
    /\ \A i \in 1..(j - 1) : agentPromises[e][i].state # "pending"

\* lines 104 and 115: the callback of task j fills position j of the array
SlotOf(e, c) == calls[e][c].index

\* a join that resolves with the first sub-agent to settle: the synthesis call
\* is issued while the other sub-agent calls are in flight
AgentSettles_EagerSynthesis(e, c, ok, text, err) ==
  /\ c \in PendingCalls(e, "agent")
  /\ settleOrder' = [settleOrder EXCEPT ![e] = Append(@, c)]
  /\ LET j == SlotOf(e, c)
         promises == [agentPromises[e] EXCEPT ![j] =
                        Promise("fulfilled", AgentOutcome(tasks[e].items[j], ok, text, err))]
         settled == [calls[e] EXCEPT ![c] = Settled(@, ok, text, err)]
     IN /\ agentPromises' = [agentPromises EXCEPT ![e] = promises]
        /\ IF stage[e] = "DISPATCHING"
           THEN /\ calls' = [calls EXCEPT ![e] = Append(settled,
                        Call("synthesis", 0, buildSynthesizerPrompt(events[e].text, Combine(<<promises[j].value>>))))]
                /\ stage' = [stage EXCEPT ![e] = "SYNTHESIZING"]
           ELSE /\ calls' = [calls EXCEPT ![e] = settled]
                /\ UNCHANGED stage
  /\ UNCHANGED <<script, request, events, supervisorResponseText, tasks, replies, ret, res>>

\* lines 107-119: one sub-agent call settles; when it was the last one the
\* join resolves and handleEvent issues the synthesis call
AgentSettles(e, c, ok, text, err) ==
  /\ c \in PendingCalls(e, "agent")
  /\ settleOrder' = [settleOrder EXCEPT ![e] = Append(@, c)]
  /\ LET j == SlotOf(e, c)
         promises == [agentPromises[e] EXCEPT ![j] =
                        Promise("fulfilled", AgentOutcome(tasks[e].items[j], ok, text, err))]
         settled == [calls[e] EXCEPT ![c] = Settled(@, ok, text, err)]
         joined == \A i \in DOMAIN promises : promises[i].state = "fulfilled"
     IN /\ agentPromises' = [agentPromises EXCEPT ![e] = promises]
        /\ IF stage[e] = "DISPATCHING" /\ joined
           THEN /\ calls' = [calls EXCEPT ![e] = Append(settled,
                        Call("synthesis", 0, buildSynthesizerPrompt(events[e].text, Combine(ResultsArray(promises)))))]
                /\ stage' = [stage EXCEPT ![e] = "SYNTHESIZING"]
           ELSE /\ calls' = [calls EXCEPT ![e] = settled]
                /\ UNCHANGED stage
  /\ UNCHANGED <<script, request, events, supervisorResponseText, tasks, replies, ret, res>>

\* a synthesis failure answered by the simple single-call mode
SynthesisSettles_FallsBack(e, ok, text, err) ==
  /\ stage[e] = "SYNTHESIZING"
  /\ \E c \in PendingCalls(e, "synthesis") :
       /\ settleOrder' = [settleOrder EXCEPT ![e] = Append(@, c)]
       /\ IF ok
          THEN /\ calls' = [calls EXCEPT ![e][c] = Settled(@, ok, text, err)]
               /\ stage' = [stage EXCEPT ![e] = "DONE"]
               /\ replies' = [replies EXCEPT ![e] = Append(@, Reply(events[e].replyToken, text))]
          ELSE /\ calls' = [calls EXCEPT ![e] = Append([@ EXCEPT ![c] = Settled(@, ok, text, err)],
                                                       Call("fallback", 0, FallbackPrompt(events[e].text)))]
               /\ stage' = [stage EXCEPT ![e] = "FALLBACK"]
               /\ UNCHANGED replies
  /\ UNCHANGED <<script, request, events, supervisorResponseText, tasks, agentPromises, ret, res>>

\* lines 119-126: the synthesis call settles
SynthesisSettles(e, ok, text, err) ==
  /\ stage[e] = "SYNTHESIZING"
  /\ \E c \in PendingCalls(e, "synthesis") :
       /\ calls' = [calls EXCEPT ![e][c] = Settled(@, ok, text, err)]
       /\ settleOrder' = [settleOrder EXCEPT ![e] = Append(@, c)]
  /\ IF ok
     THEN /\ stage' = [stage EXCEPT ![e] = "DONE"]
          /\ replies' = [replies EXCEPT ![e] = Append(@, Reply(events[e].replyToken, text))]
     ELSE /\ stage' = [stage EXCEPT ![e] = "FAILED"]
          /\ replies' = [replies EXCEPT ![e] = Apologise(e)]
  /\ UNCHANGED <<script, request, events, supervisorResponseText, tasks, agentPromises, ret, res>>

\* a reply delivery whose rejection the catch block answers with a second reply
ReplySettles_Caught(e, ok) ==
  /\ ret[e] = "pending"
  /\ \E r \in DOMAIN replies[e] :
       /\ replies[e][r].status = "pending"
       /\ replies' = [replies EXCEPT ![e] =
            IF ok \/ r > 1 THEN [@ EXCEPT ![r].status = IF ok THEN "ok" ELSE "fail"]
            ELSE Append([@ EXCEPT ![r].status = "fail"], Reply(events[e].replyToken, APOLOGY_TEXT))]
       /\ ret' = [ret EXCEPT ![e] = IF ok THEN "fulfilled" ELSE IF r > 1 THEN "rejected" ELSE "pending"]
  /\ res' = Respond(res, ret')
  /\ UNCHANGED <<script, request, events, stage, calls, supervisorResponseText, tasks, agentPromises, settleOrder>>

\* the promise of lineClient.replyMessage, which handleEvent returned without
\* awaiting it, settles: handleEvent's promise settles the same way
ReplySettles(e, ok) ==
  /\ ret[e] = "pending"
  /\ \E r \in DOMAIN replies[e] :
       /\ replies[e][r].status = "pending"
       /\ replies' = [replies EXCEPT ![e][r].status = IF ok THEN "ok" ELSE "fail"]
  /\ ret' = [ret EXCEPT ![e] = IF ok THEN "fulfilled" ELSE "rejected"]
  /\ res' = Respond(res, ret')
  /\ UNCHANGED <<script, request, events, stage, calls, supervisorResponseText, tasks, agentPromises, settleOrder>>

Next ==
  \/ Webhook
  \/ WebhookThrows
  \/ ErrorMiddleware
  \/ \E e \in E, err \in Errors : SupervisorFails(e, err)
  \/ \E e \in E, raw \in SupervisorOutputs : SupervisorAnswers(e, raw)
  \/ \E e \in E, o \in Outcomes : FallbackSettles(e, o.ok, o.text, o.error)
  \/ \E e \in E, c \in 1..(MaxTasks + 2), o \in Outcomes : AgentSettles(e, c, o.ok, o.text, o.error)
  \/ \E e \in E, o \in Outcomes : SynthesisSettles(e, o.ok, o.text, o.error)
  \/ \E e \in E, ok \in BOOLEAN : ReplySettles(e, ok)

Spec == Init /\ [][Next]_vars

\* every issued backend call eventually settles and every reply delivery
\* completes: the promises handleEvent awaits are settled by the backend and by
\* the messaging client, each on its own
Settles(e) ==
  /\ WF_vars(e \in E /\ (\/ \E err \in Errors : SupervisorFails(e, err)
                          \/ \E raw \in SupervisorOutputs : SupervisorAnswers(e, raw)))
  /\ WF_vars(e \in E /\ \E o \in Outcomes : FallbackSettles(e, o.ok, o.text, o.error))
  /\ \A c \in 1..(MaxTasks + 2) :
       WF_vars(e \in E /\ \E o \in Outcomes : AgentSettles(e, c, o.ok, o.text, o.error))
  /\ WF_vars(e \in E /\ \E o \in Outcomes : SynthesisSettles(e, o.ok, o.text, o.error))
  /\ WF_vars(e \in E /\ \E ok \in BOOLEAN : ReplySettles(e, ok))

LiveSpec == Spec /\ WF_vars(Webhook) /\ \A e \in 1..MaxEvents : Settles(e)

\* ------------------------------------------- several events in one delivery
\* lines 31-33: a delivery of MaxEvents text messages, each with its own reply
\* token and its own text; Promise.all(events.map(handleEvent)) runs their
\* invocations concurrently
DeliveryTokens == <<"tokA", "tokB", "tokC">>
DeliveryMessages == <<"m1", "m2", "m3">>
ConcurrentOutputs ==
  { ArrayText(<<>>),
    ArrayText(<<ObjTok("r1", "i1")>>),
    ArrayText(<<ObjTok("r1", "i1"), Tok("null")>>) }
ConcurrentOutcomes ==
  { [ok |-> TRUE, text |-> "t1", error |-> ""],
    [ok |-> TRUE, text |-> "t2", error |-> ""],
    [ok |-> FALSE, text |-> "", error |-> "err1"] }

InitConcurrent ==
  /\ script = ScriptNotRun
  /\ request = "valid"
  /\ events = [i \in 1..MaxEvents |-> Event(DeliveryTokens[i], "message", "text", DeliveryMessages[i], "")]
  /\ stage = [e \in E |-> "IDLE"]
  /\ calls = [e \in E |-> <<>>]
  /\ supervisorResponseText = [e \in E |-> <<>>]
  /\ tasks = [e \in E |-> NoTasks]
  /\ agentPromises = [e \in E |-> <<>>]
  /\ replies = [e \in E |-> <<>>]
  /\ ret = [e \in E |-> "notcalled"]
  /\ settleOrder = [e \in E |-> <<>>]
  /\ res = "none"

NextConcurrent ==
  \/ Webhook
  \/ \E e \in E : SupervisorFails(e, "err1")
  \/ \E e \in E, raw \in ConcurrentOutputs : SupervisorAnswers(e, raw)
  \/ \E e \in E, o \in ConcurrentOutcomes : FallbackSettles(e, o.ok, o.text, o.error)
  \/ \E e \in E, c \in 1..(MaxTasks + 2), o \in ConcurrentOutcomes : AgentSettles(e, c, o.ok, o.text, o.error)
  \/ \E e \in E, o \in ConcurrentOutcomes : SynthesisSettles(e, o.ok, o.text, o.error)
  \/ \E e \in E, ok \in BOOLEAN : ReplySettles(e, ok)

ConcurrentSpec == InitConcurrent /\ [][NextConcurrent]_vars

\* ------------------------------------------------- test-gemini.js: testGemini
\* test-gemini.js lines 12-27: testGemini up to its first await, the
\* supervisor call for the user message of line 13
ScriptStarted(userMessage) ==
  [stage |-> "SUPERVISING", calls |-> <<Call("supervisor", 0, SupervisorPromptOf(userMessage))>>,
   tasks |-> NoTasks, agentPromises |-> <<>>]

\* the script is run with the user message of the handler's event and is
\* given, call by call, the results the backend gave the handler
InitTest ==
  /\ request = "valid"
  /\ events = <<Event("tokA", "message", "text", "m1", "")>>
  /\ script = ScriptStarted("m1")
  /\ stage = [e \in E |-> "IDLE"]
  /\ calls = [e \in E |-> <<>>]
  /\ supervisorResponseText = [e \in E |-> <<>>]
  /\ tasks = [e \in E |-> NoTasks]
  /\ agentPromises = [e \in E |-> <<>>]
  /\ replies = [e \in E |-> <<>>]
  /\ ret = [e \in E |-> "notcalled"]
  /\ settleOrder = [e \in E |-> <<>>]
  /\ res = "none"

\* the settled calls of the handler that gave the backend's result for the
\* call of the same stage and position
ResultsFor(st, index) ==
  {c \in DOMAIN calls[1] : /\ calls[1][c].stage = st
                            /\ calls[1][c].index = index
                            /\ calls[1][c].status # "pending"}

\* test-gemini.js lines 27-53: the supervisor call settles; the script runs
\* to its next await, to the return of line 41 or to the catch of line 70
TGSupervisorSettles ==
  /\ script.stage = "SUPERVISING"
  /\ \E h \in ResultsFor("supervisor", 0) :
       LET result == calls[1][h]
           parsed == ParseTasks(supervisorResponseText[1])
           answered == [script.calls EXCEPT ![1] = Settled(@, result.status = "ok", result.text, result.error)]
           userMessage == events[1].text
       IN script' =
            IF result.status # "ok"
            THEN [script EXCEPT !.stage = "FAILED", !.calls = answered]
            ELSE IF UseFallback(parsed)
            THEN [script EXCEPT !.stage = "RETURNED", !.calls = answered, !.tasks = parsed]
            ELSE [stage |-> IF \E j \in DOMAIN parsed.items : Throws(parsed.items[j])
                            THEN "FAILED" ELSE "DISPATCHING",
                  calls |-> answered \o AgentCalls(parsed.items, 1, userMessage),
                  tasks |-> parsed,
                  agentPromises |-> StartedPromises(parsed.items)]
  /\ UNCHANGED <<request, events, stage, calls, supervisorResponseText, tasks, agentPromises, replies, ret, settleOrder, res>>

\* test-gemini.js lines 46-63: one sub-agent call settles; a rejected call
\* rejects its callback, and with it Promise.all, which lands in the catch of
\* line 70; when the last one is fulfilled the synthesis call is issued
TGAgentSettles(c) ==
  /\ c \in DOMAIN script.calls
  /\ script.calls[c].stage = "agent"
  /\ script.calls[c].status = "pending"
  /\ \E h \in ResultsFor("agent", script.calls[c].index) :
       LET result == calls[1][h]
           ok == result.status = "ok"
           j == script.calls[c].index
           promises == [script.agentPromises EXCEPT ![j] =
                          IF ok THEN Promise("fulfilled", ReportOk(RoleOf(script.tasks.items[j]), result.text))
                          ELSE Promise("rejected", <<>>)]
           settled == [script.calls EXCEPT ![c] = Settled(@, ok, result.text, result.error)]
           joined == \A i \in DOMAIN promises : promises[i].state = "fulfilled"
       IN script' =
            IF script.stage = "DISPATCHING" /\ joined
            THEN [script EXCEPT !.stage = "SYNTHESIZING", !.agentPromises = promises,
                                !.calls = Append(settled, Call("synthesis", 0,
                                    buildSynthesizerPrompt(events[1].text, Combine(ResultsArray(promises)))))]
            ELSE IF script.stage = "DISPATCHING" /\ ~ok
            THEN [script EXCEPT !.stage = "FAILED", !.agentPromises = promises, !.calls = settled]
            ELSE [script EXCEPT !.agentPromises = promises, !.calls = settled]
  /\ UNCHANGED <<request, events, stage, calls, supervisorResponseText, tasks, agentPromises, replies, ret, settleOrder, res>>

\* test-gemini.js lines 65-72: the synthesis call settles; the final result
\* is printed, or the catch of line 70 reports the failure
TGSynthesisSettles ==
  /\ script.stage = "SYNTHESIZING"
  /\ \E h \in ResultsFor("synthesis", 0) :
       LET result == calls[1][h]
           c == Len(script.calls)
       IN script' = [script EXCEPT !.stage = IF result.status = "ok" THEN "PRINTED" ELSE "FAILED",
                                   !.calls[c] = Settled(@, result.status = "ok", result.text, result.error)]
  /\ UNCHANGED <<request, events, stage, calls, supervisorResponseText, tasks, agentPromises, replies, ret, settleOrder, res>>

NextTest ==
  \/ Webhook
  \/ \E e \in E, err \in Errors : SupervisorFails(e, err)
  \/ \E e \in E, raw \in ConcurrentOutputs \cup {ArrayText(<<ObjTok("r1", "i1"), ObjTok("r2", "i1")>>)} :
       SupervisorAnswers(e, raw)
  \/ \E e \in E, o \in Outcomes : FallbackSettles(e, o.ok, o.text, o.error)
  \/ \E e \in E, c \in 1..(MaxTasks + 2), o \in Outcomes : AgentSettles(e, c, o.ok, o.text, o.error)
  \/ \E e \in E, o \in Outcomes : SynthesisSettles(e, o.ok, o.text, o.error)
  \/ \E e \in E, ok \in BOOLEAN : ReplySettles(e, ok)
  \/ TGSupervisorSettles
  \/ \E c \in 1..(MaxTasks + 2) : TGAgentSettles(c)
  \/ TGSynthesisSettles

TestSpec == InitTest /\ [][NextTest]_vars

\* ================================================================ properties
\* vocabulary of the properties
TextInvocation(e) == StartStage(events[e]) = "SUPERVISING" /\ stage[e] # "IDLE"
CallsOfStage(e, st) == {c \in DOMAIN calls[e] : calls[e][c].stage = st}
InFlight(e) == {c \in DOMAIN calls[e] : calls[e][c].status = "pending"}
FailedCalls(e, st) == {c \in CallsOfStage(e, st) : calls[e][c].status = "fail"}
ReplyTexts(e) == [r \in DOMAIN replies[e] |-> replies[e][r].text]
SupervisorAnswered(e) == calls[e] # <<>> /\ calls[e][1].status = "ok"
\* the parsed value is a non-empty array all of whose elements are descriptors,
\* i.e. values whose role and instruction can be read
FanOut(e) ==
  /\ tasks[e].k = "array"
  /\ Len(tasks[e].items) >= 1
  /\ \A j \in DOMAIN tasks[e].items : ~Throws(tasks[e].items[j])
\* the call issued for descriptor j
CallOfTask(e, j) == CHOOSE c \in CallsOfStage(e, "agent") : calls[e][c].index = j

\* C1: a text-message invocation with a real reply token never has two
\* replies, and has exactly one as soon as none of its backend calls is in
\* flight, whatever calls succeeded or failed.
C1_ExactlyOneReply ==
  \A e \in E : TextInvocation(e) =>
    /\ Len(replies[e]) <= 1
    /\ (InFlight(e) = {} => Len(replies[e]) = 1)
    /\ (Len(replies[e]) = 1 => replies[e][1].replyToken = events[e].replyToken)

C1_Witness ==
  \E e \in E : /\ TextInvocation(e)
               /\ FailedCalls(e, "fallback") # {}
               /\ ReplyTexts(e) = <<APOLOGY_TEXT>>
               /\ ret[e] = "fulfilled"

\* C2: backend failures never make handleEvent's promise reject: it rejects
\* only when the delivery of the reply itself failed, and the text handed to
\* the reply delivery is a backend text or the fixed apology.
C2_NeverRaises ==
  \A e \in E : TextInvocation(e) =>
    /\ (ret[e] = "rejected" => \E r \in DOMAIN replies[e] : replies[e][r].status = "fail")
    /\ (\E c \in DOMAIN calls[e] : calls[e][c].status = "fail") /\ InFlight(e) = {}
          => /\ replies[e] # <<>>
             /\ \A r \in DOMAIN replies[e] : replies[e][r].text \in Texts \cup {APOLOGY_TEXT}
             /\ (replies[e][1].status = "ok" => ret[e] = "fulfilled")

C2_Witness ==
  \E e \in E : /\ TextInvocation(e)
               /\ FailedCalls(e, "agent") # {}
               /\ FailedCalls(e, "synthesis") # {}
               /\ ret[e] = "fulfilled"

\* C3: when the supervisor's answer parses to no task, exactly one further
\* call is made, its prompt is the user message alone, no sub-agent or
\* synthesis call is made, and its text is the reply.
C3_FallbackPath ==
  \A e \in E : (SupervisorAnswered(e) /\ UseFallback(tasks[e])) =>
    /\ Len(calls[e]) = 2
    /\ calls[e][2].stage = "fallback"
    /\ calls[e][2].prompt = <<events[e].text>>
    /\ (calls[e][2].status = "pending" => replies[e] = <<>>)
    /\ (calls[e][2].status = "ok" => ReplyTexts(e) = <<calls[e][2].text>>)

C3_Witness ==
  \E e \in E : /\ SupervisorAnswered(e)
               /\ tasks[e] = EmptyArray
               /\ Len(calls[e]) = 2
               /\ calls[e][2].status = "ok"
               /\ ReplyTexts(e) = <<calls[e][2].text>>

\* C4: when the supervisor's answer parses to N >= 1 descriptors there is one
\* supervisor call, no fallback call, exactly one sub-agent call per
\* descriptor whether it fails or not, and exactly one synthesis call once
\* they have all settled.
C4_FanOutCallCount ==
  \A e \in E : FanOut(e) =>
    LET N == Len(tasks[e].items) IN
    /\ Cardinality(CallsOfStage(e, "supervisor")) = 1
    /\ CallsOfStage(e, "fallback") = {}
    /\ Cardinality(CallsOfStage(e, "agent")) = N
    /\ \A j \in 1..N : Cardinality({c \in CallsOfStage(e, "agent") : calls[e][c].index = j}) = 1
    /\ Cardinality(CallsOfStage(e, "synthesis")) <= 1
    /\ (CallsOfStage(e, "agent") \cap InFlight(e) = {} => Cardinality(CallsOfStage(e, "synthesis")) = 1)
    /\ Len(calls[e]) <= N + 2

C4_Witness ==
  \E e \in E : /\ FanOut(e)
               /\ Len(tasks[e].items) = MaxTasks
               /\ FailedCalls(e, "agent") # {}
               /\ \E c \in CallsOfStage(e, "agent") : calls[e][c].status = "ok"
               /\ Cardinality(CallsOfStage(e, "synthesis")) = 1

\* what the outcome of descriptor j must be, given how its call settled
ExpectedOutcome(e, j) ==
  LET call == calls[e][CallOfTask(e, j)] IN
  IF call.status = "ok"
  THEN <<"[", ToStr(RoleOf(tasks[e].items[j])), REPORT_LABEL, call.text>>
  ELSE <<"[", ToStr(RoleOf(tasks[e].items[j])), FAILED_LABEL>>

\* C5: if k >= 1 of the N sub-agent calls failed, the synthesis call is still
\* made, its combined input holds N outcomes (label and placeholder for a
\* failed call, label and backend text for a successful one), and the reply
\* is the synthesis text, not the apology.
C5_PartialFailureIsolation ==
  \A e \in E :
    (/\ FanOut(e)
     /\ FailedCalls(e, "agent") # {}
     /\ CallsOfStage(e, "agent") \cap InFlight(e) = {}) =>
       LET N == Len(tasks[e].items)
           outcomes == [j \in 1..N |-> ExpectedOutcome(e, j)]
           synth == calls[e][Len(calls[e])]
       IN /\ synth.stage = "synthesis"
          /\ Len(agentPromises[e]) = N
          /\ \A j \in 1..N : agentPromises[e][j] = Promise("fulfilled", outcomes[j])
          /\ synth.prompt = buildSynthesizerPrompt(events[e].text, JoinWith(outcomes, "\n\n"))
          /\ (synth.status = "pending" => stage[e] = "SYNTHESIZING" /\ replies[e] = <<>>)
          /\ (synth.status = "ok" => stage[e] = "DONE" /\ ReplyTexts(e) = <<synth.text>>)

C5_Witness ==
  \E e \in E : /\ FanOut(e)
               /\ Cardinality(FailedCalls(e, "agent")) = Len(tasks[e].items)
               /\ Len(tasks[e].items) = MaxTasks
               /\ stage[e] = "DONE"
               /\ Len(replies[e]) = 1
               /\ replies[e][1].text \in Texts

\* C6: if the supervisor call fails it is the only backend call of the
\* invocation and the reply is the fixed apology.
C6_TotalFailure ==
  \A e \in E : (calls[e] # <<>> /\ calls[e][1].status = "fail") =>
    /\ Len(calls[e]) = 1
    /\ calls[e][1].stage = "supervisor"
    /\ ReplyTexts(e) = <<APOLOGY_TEXT>>
    /\ stage[e] = "FAILED"

C6_Witness ==
  \E e \in E : /\ calls[e] # <<>>
               /\ calls[e][1].status = "fail"
               /\ ret[e] = "fulfilled"

\* C7: neither the synthesis call nor a reply is issued while a dispatched
\* sub-agent call of the invocation is still in flight.
C7_JoinBarrier ==
  \A e \in E :
    (replies[e] # <<>> \/ CallsOfStage(e, "synthesis") # {})
      => CallsOfStage(e, "agent") \cap InFlight(e) = {}

\* C8: whatever the order in which the sub-agent calls settle, the outcome at
\* position j carries the label of descriptor j and the result of the call
\* issued for descriptor j, and the block passed to synthesis lists the
\* outcomes in descriptor order.
C8_OrderAndIdentity ==
  \A e \in E :
    /\ \A j \in DOMAIN agentPromises[e] :
         agentPromises[e][j].state = "fulfilled" =>
           /\ calls[e][CallOfTask(e, j)].status # "pending"
           /\ agentPromises[e][j].value = ExpectedOutcome(e, j)
    /\ \A c \in CallsOfStage(e, "synthesis") :
         LET N == Len(tasks[e].items) IN
         calls[e][c].prompt =
           buildSynthesizerPrompt(events[e].text,
             Flatten([j \in 1..N |-> IF j = 1 THEN ExpectedOutcome(e, j)
                                              ELSE <<"\n\n">> \o ExpectedOutcome(e, j)]))

\* the sub-agent calls settled in the reverse of the descriptor order
SettledInReverse(e) ==
  \E a, b \in DOMAIN settleOrder[e] :
    /\ a < b
    /\ calls[e][settleOrder[e][a]].stage = "agent"
    /\ calls[e][settleOrder[e][b]].stage = "agent"
    /\ calls[e][settleOrder[e][a]].index > calls[e][settleOrder[e][b]].index

C8_Witness ==
  \E e \in E : /\ FanOut(e)
               /\ Len(tasks[e].items) >= 2
               /\ RoleOf(tasks[e].items[1]) # RoleOf(tasks[e].items[2])
               /\ SettledInReverse(e)
               /\ calls[e][CallOfTask(e, 1)].text # calls[e][CallOfTask(e, 2)].text
               /\ CallsOfStage(e, "synthesis") # {}

\* the supervisor's answer is not JSON once cleaned
Unparseable(raw) == JSONparse(Trim(StripFences(raw))) = SyntaxError

\* C9: when the supervisor call succeeds with an answer that is not
\* parseable, the invocation makes the fallback call with the user message,
\* and it is FAILED or apologises only if that fallback call failed.
C9_ParseFailureFallsBack ==
  \A e \in E : (SupervisorAnswered(e) /\ Unparseable(supervisorResponseText[e])) =>
    /\ Len(calls[e]) = 2
    /\ calls[e][2].stage = "fallback"
    /\ calls[e][2].prompt = <<events[e].text>>
    /\ ((stage[e] = "FAILED" \/ (replies[e] # <<>> /\ replies[e][1].text = APOLOGY_TEXT))
          => calls[e][2].status = "fail")

C9_Witness ==
  \E e \in E : /\ SupervisorAnswered(e)
               /\ Unparseable(supervisorResponseText[e])
               /\ supervisorResponseText[e] # <<>>
               /\ stage[e] = "DONE"
               /\ Len(replies[e]) = 1
               /\ replies[e][1].text = calls[e][2].text

\* C10: a failed fallback call or a failed synthesis call is the last backend
\* call of the invocation, which is FAILED and replies with the apology.
C10_FallbackOrSynthesisFailure ==
  \A e \in E : \A c \in FailedCalls(e, "fallback") \cup FailedCalls(e, "synthesis") :
    /\ c = Len(calls[e])
    /\ InFlight(e) = {}
    /\ stage[e] = "FAILED"
    /\ ReplyTexts(e) = <<APOLOGY_TEXT>>

C10_Witness ==
  \E e \in E : /\ FailedCalls(e, "synthesis") # {}
               /\ \E c \in CallsOfStage(e, "agent") : calls[e][c].status = "ok"
               /\ ReplyTexts(e) = <<APOLOGY_TEXT>>

\* what JSON.parse makes of the supervisor's answer of event e once cleaned
ParsedAnswer(e) == JSONparse(Trim(StripFences(supervisorResponseText[e])))
NonObjectArray(v) ==
  v.k = "array" /\ Len(v.items) >= 1 /\ \A j \in DOMAIN v.items : v.items[j].k # "obj"
TakesFallback(e) ==
  /\ UseFallback(tasks[e])
  /\ CallsOfStage(e, "agent") = {}
  /\ agentPromises[e] = <<>>
  /\ Len(calls[e]) = 2
  /\ calls[e][2].stage = "fallback"

\* C11 (as claimed): an answer that is malformed text, a JSON object, an
\* array of non-object elements or an empty array is treated as the empty
\* sequence: the fallback call is made and no sub-agent is dispatched.
C11_EmptySequenceCases ==
  \A e \in E : SupervisorAnswered(e) =>
    LET v == ParsedAnswer(e) IN
    (v = SyntaxError \/ v.k # "array" \/ Len(v.items) = 0 \/ NonObjectArray(v)) => TakesFallback(e)

\* C11 (amended): parsing never throws; malformed text, a JSON value that is
\* not an array, and an empty array are treated as the empty sequence and
\* take the fallback path; a non-empty array of non-object elements is not:
\* it takes the fan-out branch with one callback per element and no fallback
\* call.
C11_EmptySequenceCasesAmended ==
  \A e \in E : SupervisorAnswered(e) =>
    LET v == ParsedAnswer(e) IN
    /\ tasks[e].k \notin {"SyntaxError", "unset"}
    /\ (v = SyntaxError \/ v.k # "array" \/ Len(v.items) = 0) => TakesFallback(e)
    /\ NonObjectArray(v) =>
         /\ tasks[e] = v
         /\ CallsOfStage(e, "fallback") = {}
         /\ Len(agentPromises[e]) = Len(v.items)

C11_Witness ==
  \E e \in E : /\ SupervisorAnswered(e)
               /\ NonObjectArray(ParsedAnswer(e))
               /\ \E c \in CallsOfStage(e, "agent") :
                    /\ calls[e][c].status = "ok"
                    /\ tasks[e].items[calls[e][c].index].k = "num"
               /\ CallsOfStage(e, "synthesis") # {}

\* the text is a JSON array of objects that each have a role and an instruction
IsTaskArrayText(text) ==
  LET n == Len(text) IN
  /\ n >= 2
  /\ text[1].t = "["
  /\ text[n].t = "]"
  /\ n = 2 \/ n % 2 = 1
  /\ \A p \in 2..(n - 1) :
       IF p % 2 = 0
       THEN text[p].t = "obj" /\ text[p].role # Undefined /\ text[p].instruction # Undefined
       ELSE text[p].t = ","
\* the array such a text denotes, element by element as written
WrittenValue(text) ==
  JsonValue("array", [j \in 1..((Len(text) - 1) \div 2) |-> ElemOf(text[2 * j])])

\* C12: when the supervisor's answer is valid JSON array text of
\* {role, instruction} objects, the parsed tasks have the length of the
\* array, in its order, with each element's role and instruction as written.
C12_ParserPreserves ==
  \A e \in E : (SupervisorAnswered(e) /\ IsTaskArrayText(supervisorResponseText[e])) =>
    /\ tasks[e].k = "array"
    /\ Len(tasks[e].items) = (Len(supervisorResponseText[e]) - 1) \div 2
    /\ tasks[e] = WrittenValue(supervisorResponseText[e])

\* a text wrapped in a fenced code block, and the text inside the fences
FenceTags == {"json", "JSON", "js"}
IsFenced(text) == Len(text) >= 2 /\ text[1] = FENCE /\ text[Len(text)] = FENCE
Unfenced(text) ==
  LET body == SubSeq(text, 2, Len(text) - 1)
  IN Trim(IF body # <<>> /\ body[1].t \in FenceTags THEN Tail(body) ELSE body)

\* C13: an answer that is a valid task array wrapped in fence markers,
\* untagged or tagged, parses to the same tasks as the array without the
\* markers, with every role and instruction as written.
C13_FenceInsensitive ==
  \A e \in E :
    (/\ SupervisorAnswered(e)
     /\ IsFenced(supervisorResponseText[e])
     /\ IsTaskArrayText(Unfenced(supervisorResponseText[e]))) =>
       /\ tasks[e] = ParseTasks(Unfenced(supervisorResponseText[e]))
       /\ tasks[e] = WrittenValue(Unfenced(supervisorResponseText[e]))

\* C14: no text that reaches the user holds any part of a backend error: the
\* reply after a failed supervisor, fallback or synthesis call is the one
\* fixed apology whatever the error was, the outcome of a failed sub-agent is
\* its label and the fixed placeholder, and no error enters a prompt or a
\* reply.
C14_ErrorNeverExposed ==
  \A e \in E :
    /\ \A r \in DOMAIN replies[e] : replies[e][r].text \notin Errors
    /\ (FailedCalls(e, "supervisor") \cup FailedCalls(e, "fallback") \cup FailedCalls(e, "synthesis") # {}
          => ReplyTexts(e) = <<APOLOGY_TEXT>>)
    /\ \A c \in FailedCalls(e, "agent") :
         /\ calls[e][c].error \in Errors
         /\ agentPromises[e][calls[e][c].index].value =
              <<"[", ToStr(RoleOf(tasks[e].items[calls[e][c].index])), FAILED_LABEL>>
    /\ \A j \in DOMAIN agentPromises[e] :
         \A p \in DOMAIN agentPromises[e][j].value : agentPromises[e][j].value[p] \notin Errors
    /\ \A c \in DOMAIN calls[e] :
         \A p \in DOMAIN calls[e][c].prompt : calls[e][c].prompt[p] \notin Errors

C14_Witness ==
  \E e \in E :
    /\ \E c, d \in FailedCalls(e, "agent") : calls[e][c].error # calls[e][d].error
    /\ \E c \in CallsOfStage(e, "synthesis") : calls[e][c].status = "ok"
    /\ Len(replies[e]) = 1
    /\ replies[e][1].status = "ok"

\* C15: every element of a non-empty parsed array gets its own sub-agent
\* call, rendered from whatever role and instruction it has, and its own
\* labelled outcome once that call settles; none is dropped, merged with a
\* duplicate, or rejected.
C15_NoFiltering ==
  \A e \in E : (tasks[e].k = "array" /\ Len(tasks[e].items) >= 1) =>
    \A j \in DOMAIN tasks[e].items :
      LET mine == {c \in CallsOfStage(e, "agent") : calls[e][c].index = j} IN
      /\ Cardinality(mine) = 1
      /\ \A c \in mine :
           /\ calls[e][c].prompt = <<"you are now ", ToStr(RoleOf(tasks[e].items[j])),
                                     ". carry out the instruction:\n", ToStr(InstructionOf(tasks[e].items[j])),
                                     "\n\noriginal user message:", events[e].text>>
           /\ calls[e][c].status # "pending" =>
                /\ agentPromises[e][j].state = "fulfilled"
                /\ agentPromises[e][j].value[2] = ToStr(RoleOf(tasks[e].items[j]))

\* an event that reached the dispatch of handleEvent (its token is not a dummy)
Dispatched(e) == stage[e] # "IDLE" /\ ~IsDummy(events[e].replyToken)

\* C16: a postback event is never decomposed: no backend call, and exactly
\* one reply, the fixed text of its action or the unknown-action notice.
C16_PostbackNotDecomposed ==
  \A e \in E : (Dispatched(e) /\ events[e].type = "postback") =>
    /\ calls[e] = <<>>
    /\ tasks[e] = NoTasks
    /\ Len(replies[e]) = 1
    /\ replies[e][1].replyToken = events[e].replyToken
    /\ replies[e][1].text =
         (CASE events[e].data = "action=features" -> buildFeatureListText
            [] events[e].data = "action=help" -> buildHelpText
            [] events[e].data = "action=ai_chat" -> AI_CHAT_GREETING
            [] OTHER -> UNKNOWN_ACTION_TEXT)

C16_Witness ==
  \E e \in E : /\ Dispatched(e)
               /\ events[e].type = "postback"
               /\ events[e].data = "action=help"
               /\ replies[e] # <<>>
               /\ replies[e][1].status = "ok"
               /\ res = "200 json"

\* C17 (as claimed): a message event whose type is not text is answered with
\* a fixed notice.
C17_UnsupportedTypeNotice ==
  \A e \in E : (Dispatched(e) /\ events[e].type = "message" /\ events[e].messageType # "text") =>
    /\ Len(replies[e]) = 1
    /\ replies[e][1].text = UNKNOWN_ACTION_TEXT

\* C17 (amended): a message event whose type is not text gets no notice:
\* handleEvent returns null without replying; only an unknown postback action
\* is answered with the fixed notice.
C17_UnsupportedTypeSilent ==
  \A e \in E : Dispatched(e) =>
    /\ (events[e].type = "message" /\ events[e].messageType # "text")
          => (replies[e] = <<>> /\ ret[e] = "null")
    /\ (events[e].type = "postback" /\ events[e].data \notin {"action=features", "action=help", "action=ai_chat"})
          => ReplyTexts(e) = <<UNKNOWN_ACTION_TEXT>>

C17_Witness ==
  \E e \in E : /\ Dispatched(e)
               /\ events[e].type = "message"
               /\ events[e].messageType = "image"
               /\ ret[e] = "null"
               /\ res = "200 json"

\* C18: whatever fails, the webhook answers with status 200.
C18_Always200 == res # "none" => res \in {"200 end", "200 json"}

\* C19: an event carrying a dummy verification token is ignored whatever its
\* type: handleEvent returns null, makes no backend call and sends no reply.
C19_DummyTokensIgnored ==
  \A e \in E :
    (stage[e] # "IDLE" /\ events[e].replyToken \in {"00000000000000000000000000000000", "ffffffffffffffffffffffffffffffff"}) =>
      /\ ret[e] = "null"
      /\ calls[e] = <<>>
      /\ replies[e] = <<>>

C19_Witness ==
  \E e \in E : /\ stage[e] # "IDLE"
               /\ events[e].replyToken = "ffffffffffffffffffffffffffffffff"
               /\ events[e].type = "postback"
               /\ ret[e] = "null"
               /\ res = "200 json"

\* C20: an event that is neither a postback nor a text message is ignored (no
\* backend call, no reply), and an event that led to a backend call or a
\* reply is a text message or a postback.
C20_NonTextIgnored ==
  \A e \in E : stage[e] # "IDLE" =>
    LET textMessage == events[e].type = "message" /\ events[e].messageType = "text"
        postback == events[e].type = "postback"
    IN /\ (~textMessage /\ ~postback) => (calls[e] = <<>> /\ replies[e] = <<>> /\ ret[e] = "null")
       /\ calls[e] # <<>> => textMessage
       /\ replies[e] # <<>> => (textMessage \/ postback)

C20_Witness ==
  \E e \in E : /\ stage[e] # "IDLE"
               /\ events[e].type = "follow"
               /\ events[e].replyToken = "tokA"
               /\ ret[e] = "null"
               /\ calls[e] = <<>>
               /\ res = "200 json"

\* C21: for any non-empty parsed array, a failure raised while producing one
\* element's outcome becomes that element's placeholder: no promise of the
\* fan-out rejects, the synthesis call is made once the issued calls have
\* settled, and the invocation is not FAILED while a sub-agent call is in
\* flight or before the synthesis call.
C21_CaughtAtTaskBoundary ==
  \A e \in E : (tasks[e].k = "array" /\ Len(tasks[e].items) >= 1) =>
    /\ \A j \in DOMAIN agentPromises[e] : agentPromises[e][j].state # "rejected"
    /\ PendingCalls(e, "agent") = {} => CallsOfStage(e, "synthesis") # {}
    /\ stage[e] = "FAILED" => (PendingCalls(e, "agent") = {} /\ CallsOfStage(e, "synthesis") # {})

\* the order of the stages of one invocation, read off the calls it issued
\* (calls[e] lists them in the order of issue)
C22_StageOrder(e) ==
  LET ag == CallsOfStage(e, "agent")
      fb == CallsOfStage(e, "fallback")
      syn == CallsOfStage(e, "synthesis")
  IN /\ calls[e] # <<>> => (calls[e][1].stage = "supervisor" /\ CallsOfStage(e, "supervisor") = {1})
     /\ Len(calls[e]) >= 2 => calls[e][1].status = "ok"
     /\ ag # {} => (tasks[e].k = "array" /\ Len(tasks[e].items) >= 1)
     /\ fb # {} => (tasks[e].k # "array" \/ Len(tasks[e].items) = 0)
     /\ ~(ag # {} /\ fb # {})
     /\ Cardinality(fb) <= 1
     /\ Cardinality(syn) <= 1
     /\ \A s \in syn : /\ fb = {}
                       /\ ag # {}
                       /\ \A a \in ag : a < s /\ calls[e][a].status # "pending"

\* once an invocation is DONE or FAILED, or has emitted its reply, it stays in
\* its stage and issues no further call
C22_Absorbing ==
  \A e \in E : (stage[e] \in {"DONE", "FAILED"} \/ replies[e] # <<>>) =>
    /\ stage'[e] = stage[e]
    /\ Len(calls'[e]) = Len(calls[e])
    /\ Len(replies'[e]) = Len(replies[e])

\* C22: the supervisor call comes first; sub-agent calls only for a non-empty
\* parsed sequence and the fallback call only for an empty one, never both;
\* the synthesis call only on the fan-out path, after the sub-agent calls;
\* DONE and FAILED are absorbing and no call follows the reply.
C22_StageOrdering == [](\A e \in E : C22_StageOrder(e)) /\ [][C22_Absorbing]_vars

C22_Witness ==
  \E e \in E : /\ stage[e] = "DONE"
               /\ CallsOfStage(e, "synthesis") # {}
               /\ Cardinality(CallsOfStage(e, "agent")) = MaxTasks
               /\ ret[e] = "fulfilled"

\* C23: from the moment the supervisor's answer is parsed, every element whose
\* fields can be read has its sub-agent call issued, whether or not any other
\* call has settled, and each call that is in flight can settle whatever the
\* state of the others.
C23_UnserialisedFanOut ==
  \A e \in E : (tasks[e].k = "array" /\ Len(tasks[e].items) >= 1) =>
    /\ \A j \in DOMAIN tasks[e].items :
         ~Throws(tasks[e].items[j]) => \E c \in CallsOfStage(e, "agent") : calls[e][c].index = j
    /\ \A c \in PendingCalls(e, "agent") : ENABLED AgentSettles(e, c, TRUE, "t1", "")

\* the second sub-agent call has settled while the first is still in flight
C23_Witness ==
  \E e \in E : /\ FanOut(e)
               /\ Len(tasks[e].items) = 2
               /\ calls[e][CallOfTask(e, 1)].status = "pending"
               /\ calls[e][CallOfTask(e, 2)].status # "pending"

\* if every issued call settles and the reply delivery completes, a text
\* invocation reaches DONE or FAILED and has emitted its reply
C24_EventuallyReplies ==
  \A e \in 1..MaxEvents :
    (e \in E /\ stage[e] = "SUPERVISING")
      ~> (e \in E /\ stage[e] \in {"DONE", "FAILED"} /\ Len(replies[e]) = 1)

\* no reply is emitted by an invocation that has a backend call in flight
C24_NoReplyWhileInFlight ==
  \A e \in E : InFlight(e) # {} => replies[e] = <<>>

\* C24: if every issued call settles and the reply delivery completes, every
\* text invocation reaches DONE or FAILED and emits its reply; and there is
\* no timeout: an invocation does not reply while one of its backend calls
\* has not settled.
C24_RunToCompletion == C24_EventuallyReplies /\ []C24_NoReplyWhileInFlight

\* the prompts an invocation must have issued so far, computed from its own
\* user message and the results of its own calls
C25_OwnPrompts(e) ==
  LET um == events[e].text
      sup == <<SupervisorPromptOf(um)>>
      parsed == ParseTasks(supervisorResponseText[e])
      N == Len(parsed.items)
      agents == Flatten([j \in 1..N |->
                  IF Throws(parsed.items[j]) THEN <<>>
                  ELSE <<buildAgentPrompt(RoleOf(parsed.items[j]), InstructionOf(parsed.items[j]), um)>>])
      joined == /\ \A j \in 1..N : ~Throws(parsed.items[j])
                /\ PendingCalls(e, "agent") = {}
  IN IF calls[e][1].status # "ok" THEN sup
     ELSE IF UseFallback(parsed) THEN sup \o <<FallbackPrompt(um)>>
     ELSE IF ~joined THEN sup \o agents
     ELSE sup \o agents \o
          <<buildSynthesizerPrompt(um, JoinWith([j \in 1..N |-> ExpectedOutcome(e, j)], "\n\n"))>>

\* the reply texts an invocation must have emitted so far, computed from the
\* results of its own calls
C25_OwnReplies(e) ==
  LET last == calls[e][Len(calls[e])]
      thrown == \E j \in DOMAIN tasks[e].items : Throws(tasks[e].items[j])
  IN IF calls[e][1].status = "pending" THEN <<>>
     ELSE IF calls[e][1].status = "fail" \/ thrown THEN <<APOLOGY_TEXT>>
     ELSE IF last.stage \in {"fallback", "synthesis"} /\ last.status = "ok" THEN <<last.text>>
     ELSE IF last.stage \in {"fallback", "synthesis"} /\ last.status = "fail" THEN <<APOLOGY_TEXT>>
     ELSE <<>>

\* what an invocation has done: its calls, its parsed tasks and its replies
C25_Local(e) == <<stage[e], calls[e], supervisorResponseText[e], tasks[e], agentPromises[e], replies[e], ret[e]>>

\* after the delivery has started the invocations, one step is a step of one
\* invocation: it leaves what every other invocation has done as it is
C25_OneInvocationPerStep ==
  \A e1, e2 \in E :
    (e1 # e2 /\ stage[e1] # "IDLE") => (C25_Local(e1)' = C25_Local(e1) \/ C25_Local(e2)' = C25_Local(e2))

\* whatever the other invocations are doing, an invocation's pending call can
\* settle
C25_NeverBlocked(e) ==
  /\ stage[e] = "SUPERVISING" => ENABLED SupervisorFails(e, "err1")
  /\ stage[e] = "FALLBACK" => ENABLED FallbackSettles(e, TRUE, "t1", "")
  /\ \A c \in PendingCalls(e, "agent") : ENABLED AgentSettles(e, c, TRUE, "t1", "")
  /\ stage[e] = "SYNTHESIZING" => ENABLED SynthesisSettles(e, TRUE, "t1", "")

\* C25: in any interleaving of the invocations of one delivery, the prompts
\* and the reply of each are those determined by its own user message and the
\* results of its own calls, each reply carries its own event's token, no
\* invocation is blocked by another, and a step of one invocation changes
\* nothing of another.
C25_Isolation ==
  /\ [](\A e \in E : stage[e] # "IDLE" =>
          /\ [c \in DOMAIN calls[e] |-> calls[e][c].prompt] = C25_OwnPrompts(e)
          /\ ReplyTexts(e) = C25_OwnReplies(e)
          /\ \A r \in DOMAIN replies[e] : replies[e][r].replyToken = events[e].replyToken
          /\ C25_NeverBlocked(e))
  /\ [][C25_OneInvocationPerStep]_vars

\* one invocation FAILED and apologised, another answered by synthesis, each
\* reply delivered to its own token
C25_Witness ==
  \E e1, e2 \in E :
    /\ e1 # e2
    /\ stage[e1] = "FAILED" /\ ReplyTexts(e1) = <<APOLOGY_TEXT>> /\ replies[e1][1].replyToken = "tokA"
    /\ stage[e2] = "DONE" /\ CallsOfStage(e2, "synthesis") # {} /\ replies[e2][1].replyToken = "tokB"
    /\ replies[e2][1].text \in Texts
    /\ ret[e1] = "fulfilled" /\ ret[e2] = "fulfilled"

\* the script and the handler have both run to their end
C26_BothFinished ==
  /\ script.stage \in {"RETURNED", "PRINTED", "FAILED"}
  /\ \A c \in DOMAIN script.calls : script.calls[c].status # "pending"
  /\ stage[1] \in {"DONE", "FAILED"}
  /\ InFlight(1) = {}

\* C26: run on the same user message and given the same backend results, the
\* script has issued the same sequence of backend calls as the handler and
\* ends in success exactly when the handler does.
C26_SamePipeline ==
  C26_BothFinished =>
    /\ [c \in DOMAIN script.calls |-> script.calls[c].prompt] = [c \in DOMAIN calls[1] |-> calls[1][c].prompt]
    /\ (script.stage \in {"RETURNED", "PRINTED"}) <=> (stage[1] = "DONE")

====
